---- MODULE Spec2Model ----
(***************************************************************************)
(* A model of simple-timer (src/timer.hpp, src/main.cpp): the scoped       *)
(* measurement handle Timer, the two overloads of timer::time, the         *)
(* measurement record TimeResult, the duration view TimeView and the unit  *)
(* catalogue.                                                              *)
(*                                                                         *)
(* Time is counted in clock ticks, TicksPerSecond of them to the second.   *)
(* A Duration (double seconds in the source) is the exact rational         *)
(* ticks / TicksPerSecond; the round-off of the double arithmetic is not   *)
(* modelled.  Unit periods and converted counts do not fit the 32-bit      *)
(* integers of TLC (10^12 picoseconds to the second, 31 556 952 000        *)
(* seconds to the millennium), so they are natural numbers held as         *)
(* sequences of limbs.                                                     *)
(***************************************************************************)
EXTENDS Integers, Sequences, FiniteSets, TLC

VARIABLES
    BUILD_WITH_MPI_FLAG, \* the build's clock selection, fixed for the whole run
    steadyNow,           \* std::chrono::steady_clock, in ticks
    wallOffset,          \* MPI_Wtime() minus steady_clock, in ticks
    advances,            \* how many times the clocks have moved
    pc,                  \* per thread: its position in time()
    shape,               \* per thread: which overload of time() runs
    toTime,              \* per thread: the callable passed to time()
    timerAlive,          \* per thread: is the local Timer constructed
    m_StartTimePoint,    \* per thread: Timer::m_StartTimePoint
    m_TimeReference,     \* per thread: Timer::m_TimeReference, a slot address
    duration,            \* per slot: the Duration slot the Timer points at
    result,              \* per thread: the local that captures the return
    record,              \* per thread: the TimeResult the caller received
    failure,             \* per thread: the failure the caller received
    events,              \* per thread: what the current call did, in order
    callsLeft,           \* per thread: how many calls of time() it may still make
    invokedAt,           \* per thread: steady_clock when the callable began
    finishedAt,          \* per thread: steady_clock when the callable ended
    view                 \* the last getDurationView<U>().as<Rep>() taken

vars == <<BUILD_WITH_MPI_FLAG, steadyNow, wallOffset, advances, pc, shape,
          toTime, timerAlive, m_StartTimePoint, m_TimeReference, duration,
          result, record, failure, events, callsLeft, invokedAt,
          finishedAt, view>>

callVars == <<pc, shape, toTime, timerAlive, m_StartTimePoint,
              m_TimeReference, duration, result, record, failure, events,
              callsLeft, invokedAt, finishedAt>>

clockVars == <<steadyNow, wallOffset, advances>>

-----------------------------------------------------------------------------
(* Natural numbers of any size: limbs in base one thousand, least          *)
(* significant first, no leading zero; zero is the empty sequence.  The    *)
(* operators avoid deep recursion: carries are looked ahead, products are  *)
(* summed by column.                                                       *)

Base == 10 * 10 * 10

Rev(s) == [i \in 1..Len(s) |-> s[Len(s) + 1 - i]]

Max(S) == CHOOSE m \in S : \A x \in S : x <= m
Min2(x, y) == IF x < y THEN x ELSE y
Max2(x, y) == IF x < y THEN y ELSE x
Abs(i) == IF i < 0 THEN -i ELSE i

\* s without its leading (most significant) zero limbs
Strip(s) ==
    LET nz == {i \in 1..Len(s) : s[i] # 0}
    IN  IF nz = {} THEN <<>> ELSE SubSeq(s, 1, Max(nz))

\* The number written in groups of three decimal digits, as 31 556 952.
Num(groups) == Strip(Rev(groups))

\* A natural number below 2^31 as limbs.
NatToBig(n) ==
    Strip(<<n % Base, (n \div Base) % Base, (n \div (Base * Base)) % Base,
            n \div (Base * Base * Base)>>)

\* A number of at most three limbs as an integer.
BigToNat(s) ==
    (IF Len(s) >= 1 THEN s[1] ELSE 0)
    + (IF Len(s) >= 2 THEN s[2] * Base ELSE 0)
    + (IF Len(s) >= 3 THEN s[3] * Base * Base ELSE 0)

One == <<1>>

Limb(s, i) == IF i >= 1 /\ i <= Len(s) THEN s[i] ELSE 0

\* s * Base^k
Shift(s, k) == IF s = <<>> THEN <<>> ELSE [i \in 1..k |-> 0] \o s

BigAdd(a, b) ==
    LET n == Max2(Len(a), Len(b)) + 1
        sum(i) == Limb(a, i) + Limb(b, i)
        carry(i) == \E j \in 1..(i - 1) :
                        /\ sum(j) >= Base
                        /\ \A k \in (j + 1)..(i - 1) : sum(k) = Base - 1
    IN  Strip([i \in 1..n |-> (sum(i) + IF carry(i) THEN 1 ELSE 0) % Base])

\* a - b, for a >= b
BigSub(a, b) ==
    LET borrow(i) == \E j \in 1..(i - 1) :
                         /\ Limb(a, j) < Limb(b, j)
                         /\ \A k \in (j + 1)..(i - 1) : Limb(a, k) = Limb(b, k)
    IN  Strip([i \in 1..Len(a) |->
                  (Limb(a, i) - Limb(b, i) - (IF borrow(i) THEN 1 ELSE 0) + Base)
                  % Base])

\* a * k, for 0 <= k <= Base
BigMulLimb(a, k) ==
    BigAdd(Strip([i \in 1..Len(a) |-> (a[i] * k) % Base]),
           Shift(Strip([i \in 1..Len(a) |-> (a[i] * k) \div Base]), 1))

RECURSIVE SumTo(_, _)
SumTo(f, n) == IF n = 0 THEN 0 ELSE f[n] + SumTo(f, n - 1)

BigMul(a, b) ==
    LET n == Len(a) + Len(b)
        col == [k \in 1..n |->
                   SumTo([i \in 1..Len(a) |-> a[i] * Limb(b, k + 1 - i)], Len(a))]
    IN  IF a = <<>> \/ b = <<>> THEN <<>>
        ELSE BigAdd(BigAdd(Strip([k \in 1..n |-> col[k] % Base]),
                           Shift(Strip([k \in 1..n |-> (col[k] \div Base) % Base]), 1)),
                    Shift(Strip([k \in 1..n |-> col[k] \div (Base * Base)]), 2))

\* -1, 0 or 1 as a is less than, equal to or greater than b
BigCmp(a, b) ==
    LET n == Max2(Len(a), Len(b))
        differ == {i \in 1..n : Limb(a, i) # Limb(b, i)}
    IN  IF differ = {} THEN 0
        ELSE IF Limb(a, Max(differ)) < Limb(b, Max(differ)) THEN -1 ELSE 1

BigLeq(a, b) == BigCmp(a, b) <= 0
BigLess(a, b) == BigCmp(a, b) < 0

\* The limb r \div b, for r < b * Base: bracketed by the leading limbs,
\* then settled exactly.
QuotLimb(r, b) ==
    LET drop == IF Len(b) > 2 THEN Len(b) - 2 ELSE 0
        btop == BigToNat(SubSeq(b, drop + 1, Len(b)))
        rtop == BigToNat(SubSeq(r, drop + 1, Len(r)))
        lo   == rtop \div (btop + 1)
        hi   == Min2(Base - 1, (rtop + 1) \div btop)
    IN  IF BigLess(r, b) THEN 0
        ELSE CHOOSE c \in lo..hi :
                 /\ BigLeq(BigMulLimb(b, c), r)
                 /\ BigLess(r, BigMulLimb(b, c + 1))

\* One step of long division: the quotient and remainder so far, hi, are
\* extended by the next limb h of the dividend.
DivStep(hi, h, b) ==
    IF hi.r = <<>> /\ h = 0 THEN [q |-> Shift(hi.q, 1), r |-> <<>>]
    ELSE LET r10 == Strip(<<h>> \o hi.r)
             c   == QuotLimb(r10, b)
         IN  [q |-> Strip(<<c>> \o hi.q),
              r |-> BigSub(r10, BigMulLimb(b, c))]

\* Long division: the quotient q and the remainder r of a by b, b > 0.
RECURSIVE BigDivMod(_, _)
BigDivMod(a, b) ==
    IF a = <<>> THEN [q |-> <<>>, r |-> <<>>]
    ELSE DivStep(BigDivMod(Tail(a), b), Head(a), b)

-----------------------------------------------------------------------------
(* Rational numbers with a sign: (-1)^neg * num / den.                     *)

RatMul(x, y) ==
    [neg |-> (x.neg /\ ~y.neg) \/ (~x.neg /\ y.neg),
     num |-> BigMul(x.num, y.num),
     den |-> BigMul(x.den, y.den)]

RatIsZero(x) == x.num = <<>>

RatEq(x, y) ==
    /\ BigMul(x.num, y.den) = BigMul(y.num, x.den)
    /\ (RatIsZero(x) \/ x.neg = y.neg)

\* |x| <= |y| and |x| < |y|
RatAbsLeq(x, y) == BigLeq(BigMul(x.num, y.den), BigMul(y.num, x.den))
RatAbsLess(x, y) == BigLess(BigMul(x.num, y.den), BigMul(y.num, x.den))

-----------------------------------------------------------------------------
(* The unit catalogue.  A unit is a std::chrono::duration type: the        *)
(* representation of its count and its period, seconds per unit, a         *)
(* std::ratio<num, den>.                                                   *)

\* Clock ticks to the second: the resolution of the modelled clocks.
TicksPerSecond == 4000

\* std::ratio<n, d>, each written in groups of three decimal digits
Ratio(n, d) == [neg |-> FALSE, num |-> Num(n), den |-> Num(d)]

picoseconds  == [rep |-> "double", period |-> Ratio(<<1>>, <<1, 000, 000, 000, 000>>)]
nanoseconds  == [rep |-> "double", period |-> Ratio(<<1>>, <<1, 000, 000, 000>>)]
microseconds == [rep |-> "double", period |-> Ratio(<<1>>, <<1, 000, 000>>)]
milliseconds == [rep |-> "double", period |-> Ratio(<<1>>, <<1, 000>>)]
seconds      == [rep |-> "double", period |-> Ratio(<<1>>, <<1>>)]
minutes      == [rep |-> "double", period |-> Ratio(<<60>>, <<1>>)]
hours        == [rep |-> "double", period |-> Ratio(<<3, 600>>, <<1>>)]
days         == [rep |-> "double", period |-> Ratio(<<86, 400>>, <<1>>)]
weeks        == [rep |-> "double", period |-> Ratio(<<604, 800>>, <<1>>)]
years        == [rep |-> "double", period |-> Ratio(<<31, 556, 952>>, <<1>>)]
\* Mutant: the decade with two digit groups of its period transposed.
decades_transposed == [rep |-> "double", period |-> Ratio(<<315, 695, 520>>, <<1>>)]

decades      == [rep |-> "double", period |-> Ratio(<<315, 569, 520>>, <<1>>)]
\* Mutant: the century as a hundred decades.
centuries_fromDecades == [rep |-> "double", period |-> Ratio(<<31, 556, 952, 000>>, <<1>>)]

centuries    == [rep |-> "double", period |-> Ratio(<<3, 155, 695, 200>>, <<1>>)]
millennia    == [rep |-> "double", period |-> Ratio(<<31, 556, 952, 000>>, <<1>>)]

\* The canonical Duration: double seconds.
Duration == [rep |-> "double", period |-> Ratio(<<1>>, <<1>>)]

\* The integer-tick units of std::chrono that the demo asks for.
chrono_nanoseconds  == [rep |-> "int64", period |-> Ratio(<<1>>, <<1, 000, 000, 000>>)]
chrono_microseconds == [rep |-> "int64", period |-> Ratio(<<1>>, <<1, 000, 000>>)]
chrono_milliseconds == [rep |-> "int64", period |-> Ratio(<<1>>, <<1, 000>>)]
chrono_seconds      == [rep |-> "int64", period |-> Ratio(<<1>>, <<1>>)]
chrono_minutes      == [rep |-> "int64", period |-> Ratio(<<60>>, <<1>>)]
chrono_hours        == [rep |-> "int64", period |-> Ratio(<<3, 600>>, <<1>>)]

TimerUnits ==
    {"picoseconds", "nanoseconds", "microseconds", "milliseconds", "seconds",
     "minutes", "hours", "days", "weeks", "years", "decades", "centuries",
     "millennia"}

ChronoUnits ==
    {"chrono_nanoseconds", "chrono_microseconds", "chrono_milliseconds",
     "chrono_seconds", "chrono_minutes", "chrono_hours"}

Units == TimerUnits \cup ChronoUnits \cup {"Duration"}

Unit(u) ==
    CASE u = "picoseconds"  -> picoseconds
      [] u = "nanoseconds"  -> nanoseconds
      [] u = "microseconds" -> microseconds
      [] u = "milliseconds" -> milliseconds
      [] u = "seconds"      -> seconds
      [] u = "minutes"      -> minutes
      [] u = "hours"        -> hours
      [] u = "days"         -> days
      [] u = "weeks"        -> weeks
      [] u = "years"        -> years
      [] u = "decades"      -> decades
      [] u = "centuries"    -> centuries
      [] u = "millennia"    -> millennia
      [] u = "Duration"     -> Duration
      [] u = "chrono_nanoseconds"  -> chrono_nanoseconds
      [] u = "chrono_microseconds" -> chrono_microseconds
      [] u = "chrono_milliseconds" -> chrono_milliseconds
      [] u = "chrono_seconds"      -> chrono_seconds
      [] u = "chrono_minutes"      -> chrono_minutes
      [] u = "chrono_hours"        -> chrono_hours

-----------------------------------------------------------------------------
(* Conversions.                                                            *)

\* Duration::count(): the seconds held by a Duration of d ticks.
DurationCount(d) ==
    [neg |-> d < 0, num |-> NatToBig(Abs(d)), den |-> NatToBig(TicksPerSecond)]

\* Mutant: the fraction is rounded to the nearest integer, as llround does.
RoundToNearest(x) ==
    LET two   == NatToBig(2)
        whole == BigDivMod(BigAdd(BigMul(x.num, two), x.den),
                           BigMul(x.den, two)).q
    IN  [neg |-> x.neg /\ whole # <<>>, num |-> whole, den |-> One]

\* Mutant: the fraction is rounded down, as floor does.
RoundDown(x) ==
    LET dm == BigDivMod(x.num, x.den)
        whole == IF x.neg /\ dm.r # <<>> THEN BigAdd(dm.q, One) ELSE dm.q
    IN  [neg |-> x.neg /\ whole # <<>>, num |-> whole, den |-> One]

\* static_cast<integral>(x) of a floating x: the fraction is discarded.
TruncateTowardZero(x) ==
    LET whole == BigDivMod(x.num, x.den).q
    IN  [neg |-> x.neg /\ whole # <<>>, num |-> whole, den |-> One]

\* static_cast<Rep>(count)
static_cast(Rep, x) ==
    IF Rep = "int64" THEN TruncateTowardZero(x) ELSE x

\* Mutant: the count is multiplied by the period it should be divided by.
duration_castInverted(u, d) ==
    LET cf == [neg |-> FALSE,
               num |-> BigMul(Duration.period.den, Unit(u).period.num),
               den |-> BigMul(Duration.period.num, Unit(u).period.den)]
    IN  [unit  |-> u,
         count |-> IF Unit(u).rep = "int64"
                   THEN TruncateTowardZero(RatMul(DurationCount(d), cf))
                   ELSE RatMul(DurationCount(d), cf)]

\* std::chrono::duration_cast<U>(Duration of d ticks): the count is
\* multiplied by the ratio of the two periods in the common (double)
\* representation, and then converted to U's representation.
duration_cast(u, d) ==
    LET cf == [neg |-> FALSE,
               num |-> BigMul(Duration.period.num, Unit(u).period.den),
               den |-> BigMul(Duration.period.den, Unit(u).period.num)]
    IN  [unit  |-> u,
         count |-> static_cast(Unit(u).rep, RatMul(DurationCount(d), cf))]

\* TimeResult::getDuration<U>()
getDuration(r, u) == duration_cast(u, r.duration)

\* TimeResult::getDurationCount<U>()
getDurationCount(r, u) == getDuration(r, u).count

\* TimeResult::getDurationView<U>()
getDurationView(r, u) == [duration |-> getDuration(r, u)]

\* TimeView::count()
TimeView_count(v) == v.duration.count

\* TimeView::as<Rep>()
TimeView_as(v, Rep) ==
    IF Rep = "ReturnDuration" THEN v.duration
    ELSE static_cast(Rep, v.duration.count)

\* TimeView::operator ReturnDuration()
TimeView_operator(v) == v.duration

\* Mutant: the void record's count is taken in the default unit.
TimeResult_void_getDurationCountDefault(r, u) ==
    duration_cast("Duration", r.duration).count

\* TimeResult<void>::getDuration<U>(), getDurationCount<U>() and
\* getDurationView<U>(): the specialisation declares its own three.
TimeResult_void_getDuration(r, u) == duration_cast(u, r.duration)
TimeResult_void_getDurationCount(r, u) == TimeResult_void_getDuration(r, u).count
TimeResult_void_getDurationView(r, u) ==
    [duration |-> TimeResult_void_getDuration(r, u)]

-----------------------------------------------------------------------------
(* The bounds of the model.                                                *)

\* How many times the clocks move in a run.
MaxAdvances == 2

\* How many calls of time() a thread makes in a run.
MaxCalls == 2

Threads == {"t1", "t2"}

\* By how much the clocks move at once: a tick, three quarters of a
\* second, a second, an hour.
Steps == {1, (3 * TicksPerSecond + 3) \div 4, TicksPerSecond,
          3600 * TicksPerSecond}

\* What the external wall clock may be off the steady clock by: it can be
\* set back by a tick or by a second and a half.
WallOffsets == {0, -1, -((3 * TicksPerSecond) \div 2)}

\* How long a callable sleeps: not at all, or 750 ms.
Sleeps == {0, (3 * TicksPerSecond + 3) \div 4}

\* What a value-returning callable returns: the ends of the demo's range.
Values == {1, 100}

\* What a failing callable raises.
Failures == {"bad_alloc", "runtime_error"}

\* What an uninitialised Duration may turn out to hold.
Garbage == {-7, 0, 7}

Shapes == {"value", "void"}

\* A Duration slot: not in any live frame, declared and never written, or
\* holding v ticks.
Dead == [is |-> "dead", v |-> 0]
Uninit == [is |-> "uninit", v |-> 0]
Written(d) == [is |-> "written", v |-> d]

\* Nothing returned, nothing received, nothing passed, nothing viewed.
NoValue == 0
NoRecord == [none |-> TRUE]
NoCallable == [sleep |-> 0, outcome |-> "none", value |-> NoValue]
NoView == [none |-> TRUE]

\* The callables a call of time() may be given.
Callables(sh) ==
    [sleep : Sleeps, outcome : {"return"},
     value : IF sh = "value" THEN Values ELSE {NoValue}]
    \cup [sleep : Sleeps, outcome : {"raise"}, value : Failures]

-----------------------------------------------------------------------------
(* The clocks.                                                             *)

\* Clock::now() and MPI_Wtime(), as the time point the Timer stores, with
\* the source that was read.
ReadClock(mpi) ==
    IF mpi THEN [src |-> "MPI_Wtime", at |-> steadyNow + wallOffset]
    ELSE [src |-> "steady_clock", at |-> steadyNow]

\* The read of Timer::Timer: if constexpr (BUILD_WITH_MPI_FLAG)
StartRead == ReadClock(BUILD_WITH_MPI_FLAG)

\* Mutant: the destructor reads the steady clock whatever the build.
EndReadSteady == ReadClock(FALSE)

\* The read of Timer::~Timer: if constexpr (BUILD_WITH_MPI_FLAG)
EndRead == ReadClock(BUILD_WITH_MPI_FLAG)

\* Mutant: the operands of the subtraction are swapped.
ElapsedSwapped(endTimePoint, startTimePoint) == startTimePoint - endTimePoint

\* Mutant: a negative difference is clamped to zero.
ElapsedClamped(endTimePoint, startTimePoint) ==
    IF endTimePoint < startTimePoint THEN 0 ELSE endTimePoint - startTimePoint

\* endTimePoint - m_StartTimePoint
Elapsed(endTimePoint, startTimePoint) == endTimePoint - startTimePoint

InCall(t) == pc[t] \in {"entered", "timing", "running", "returned", "raised", "closed"}

\* Time passes while a measurement is open; both clocks move with it.
TimePasses(d) ==
    /\ advances < MaxAdvances
    /\ \E t \in Threads : pc[t] \in {"timing", "running", "returned", "raised"}
    /\ steadyNow' = steadyNow + d
    /\ advances' = advances + 1
    /\ UNCHANGED <<BUILD_WITH_MPI_FLAG, wallOffset, callVars, view>>

\* The external wall clock is stepped (it is not steady).  The provider
\* exists only in a build with BUILD_WITH_MPI.
WallClockSteps(o) ==
    /\ BUILD_WITH_MPI_FLAG
    /\ advances < MaxAdvances
    /\ \E t \in Threads : pc[t] \in {"timing", "running", "returned", "raised"}
    /\ o # wallOffset
    /\ wallOffset' = o
    /\ advances' = advances + 1
    /\ UNCHANGED <<BUILD_WITH_MPI_FLAG, steadyNow, callVars, view>>

-----------------------------------------------------------------------------
(* timer::time, step by step.                                              *)

\* Mutant: the slot is a function-local static, one for all calls.
SlotOfStatic(t) == "t1"

\* The address of the Duration slot of thread t's call: the local
\* `duration` of the value-returning overload, `result.duration` of the
\* void one.  Each lives in the frame of the call.
SlotOf(t) == t

\* The callable sleeps at least as long as it was asked to.
SleptEnough(t) == steadyNow - invokedAt[t] >= toTime[t].sleep

\* The slot as time() declares it: `Duration duration;` has no initialiser,
\* `TimeResult<void> result{}` zeroes result.duration.
InitialSlot(sh) == IF sh = "value" THEN Uninit ELSE Written(0)

\* time(toTime) is entered: `Duration duration;` is left uninitialised,
\* `TimeResult<void> result{}` is zeroed.
Call(t, sh, f) ==
    /\ pc[t] \in {"idle", "done", "failed"}
    /\ callsLeft[t] > 0
    /\ callsLeft' = [callsLeft EXCEPT ![t] = @ - 1]
    /\ pc' = [pc EXCEPT ![t] = "entered"]
    /\ shape' = [shape EXCEPT ![t] = sh]
    /\ toTime' = [toTime EXCEPT ![t] = f]
    /\ duration' = [duration EXCEPT ![SlotOf(t)] = InitialSlot(sh)]
    /\ result' = [result EXCEPT ![t] = NoValue]
    /\ record' = [record EXCEPT ![t] = NoRecord]
    /\ failure' = [failure EXCEPT ![t] = "none"]
    /\ events' = [events EXCEPT ![t] = <<>>]
    /\ invokedAt' = [invokedAt EXCEPT ![t] = 0]
    /\ finishedAt' = [finishedAt EXCEPT ![t] = 0]
    /\ view' = NoView
    /\ UNCHANGED <<BUILD_WITH_MPI_FLAG, clockVars, timerAlive,
                   m_StartTimePoint, m_TimeReference>>

\* Mutant: `Timer(&duration);`, a temporary that is destroyed at the end of
\* its own statement, before the callable is invoked.
Timer_ctorTemporary(t) ==
    /\ pc[t] = "entered"
    /\ duration' = [duration EXCEPT ![SlotOf(t)] =
                        Written(Elapsed(EndRead.at, StartRead.at))]
    /\ events' = [events EXCEPT ![t] =
                      @ \o <<[kind |-> "read", src |-> StartRead.src,
                              at |-> StartRead.at],
                             [kind |-> "read", src |-> EndRead.src,
                              at |-> EndRead.at],
                             [kind |-> "write", slot |-> SlotOf(t),
                              value |-> Elapsed(EndRead.at, StartRead.at)]>>]
    /\ pc' = [pc EXCEPT ![t] = "timing"]
    /\ UNCHANGED <<BUILD_WITH_MPI_FLAG, clockVars, shape, toTime, timerAlive,
                   m_StartTimePoint, m_TimeReference, result, record, failure,
                   callsLeft, invokedAt, finishedAt, view>>

\* Timer timer(&duration): the constructor stores the slot's address and
\* reads the start time point.
Timer_ctor(t) ==
    /\ pc[t] = "entered"
    /\ m_TimeReference' = [m_TimeReference EXCEPT ![t] = SlotOf(t)]
    /\ m_StartTimePoint' = [m_StartTimePoint EXCEPT ![t] = StartRead.at]
    /\ timerAlive' = [timerAlive EXCEPT ![t] = TRUE]
    /\ events' = [events EXCEPT ![t] =
                      Append(@, [kind |-> "read", src |-> StartRead.src,
                                 at |-> StartRead.at])]
    /\ pc' = [pc EXCEPT ![t] = "timing"]
    /\ UNCHANGED <<BUILD_WITH_MPI_FLAG, clockVars, shape, toTime, duration,
                   result, record, failure, callsLeft, invokedAt,
                   finishedAt, view>>

\* toTime() is invoked.
Invoke(t) ==
    /\ pc[t] = "timing"
    /\ events' = [events EXCEPT ![t] = Append(@, [kind |-> "invoke"])]
    /\ invokedAt' = [invokedAt EXCEPT ![t] = steadyNow]
    /\ pc' = [pc EXCEPT ![t] = "running"]
    /\ UNCHANGED <<BUILD_WITH_MPI_FLAG, clockVars, shape, toTime, timerAlive,
                   m_StartTimePoint, m_TimeReference, duration, result,
                   record, failure, callsLeft, finishedAt, view>>

\* toTime() returns: `return toTime();` initialises `result` with the
\* value it returned, in the value-returning overload.
CallableReturns(t) ==
    /\ pc[t] = "running"
    /\ toTime[t].outcome = "return"
    /\ SleptEnough(t)
    /\ result' = [result EXCEPT ![t] = toTime[t].value]
    /\ events' = [events EXCEPT ![t] =
                      Append(@, [kind |-> "return", value |-> toTime[t].value])]
    /\ finishedAt' = [finishedAt EXCEPT ![t] = steadyNow]
    /\ pc' = [pc EXCEPT ![t] = "returned"]
    /\ UNCHANGED <<BUILD_WITH_MPI_FLAG, clockVars, shape, toTime, timerAlive,
                   m_StartTimePoint, m_TimeReference, duration, record,
                   failure, callsLeft, invokedAt, view>>

\* toTime() raises a failure instead of returning.
CallableRaises(t) ==
    /\ pc[t] = "running"
    /\ toTime[t].outcome = "raise"
    /\ SleptEnough(t)
    /\ events' = [events EXCEPT ![t] =
                      Append(@, [kind |-> "raise", value |-> toTime[t].value])]
    /\ finishedAt' = [finishedAt EXCEPT ![t] = steadyNow]
    /\ pc' = [pc EXCEPT ![t] = "raised"]
    /\ UNCHANGED <<BUILD_WITH_MPI_FLAG, clockVars, shape, toTime, timerAlive,
                   m_StartTimePoint, m_TimeReference, duration, result,
                   record, failure, callsLeft, invokedAt, view>>

\* Mutant: the Timer holds the Duration by value; its destructor reads the
\* clock and assigns its own member, and the caller's slot is not written.
Timer_dtorByValue(t) ==
    /\ timerAlive[t]
    /\ events' = [events EXCEPT ![t] =
                      Append(@, [kind |-> "read", src |-> EndRead.src,
                                 at |-> EndRead.at])]
    /\ timerAlive' = [timerAlive EXCEPT ![t] = FALSE]
    /\ m_TimeReference' = [m_TimeReference EXCEPT ![t] = "none"]
    /\ m_StartTimePoint' = [m_StartTimePoint EXCEPT ![t] = 0]
    /\ UNCHANGED duration

\* Mutant: the Timer destroyed is a copy of the handle; it reads the clock
\* and writes as the handle would, and the handle itself lives on.
Timer_dtorOfCopy(t) ==
    /\ timerAlive[t]
    /\ duration' = [duration EXCEPT ![m_TimeReference[t]] =
                        Written(Elapsed(EndRead.at, m_StartTimePoint[t]))]
    /\ events' = [events EXCEPT ![t] =
                      @ \o <<[kind |-> "read", src |-> EndRead.src,
                              at |-> EndRead.at],
                             [kind |-> "write", slot |-> m_TimeReference[t],
                              value |-> Elapsed(EndRead.at, m_StartTimePoint[t])]>>]
    /\ UNCHANGED <<timerAlive, m_TimeReference, m_StartTimePoint>>

\* Timer::~Timer(): reads the end time point and writes end minus start
\* through m_TimeReference.
Timer_dtor(t) ==
    /\ timerAlive[t]
    /\ duration' = [duration EXCEPT ![m_TimeReference[t]] =
                        Written(Elapsed(EndRead.at, m_StartTimePoint[t]))]
    /\ events' = [events EXCEPT ![t] =
                      @ \o <<[kind |-> "read", src |-> EndRead.src,
                              at |-> EndRead.at],
                             [kind |-> "write", slot |-> m_TimeReference[t],
                              value |-> Elapsed(EndRead.at, m_StartTimePoint[t])]>>]
    /\ timerAlive' = [timerAlive EXCEPT ![t] = FALSE]
    /\ m_TimeReference' = [m_TimeReference EXCEPT ![t] = "none"]
    /\ m_StartTimePoint' = [m_StartTimePoint EXCEPT ![t] = 0]

\* Mutant: the end of the measurement is an explicit step after the call,
\* which a failure raised by the callable skips.
ScopeExitNoUnwind(t) ==
    /\ pc[t] \in {"returned", "raised"}
    /\ IF pc[t] = "returned" THEN Timer_dtor(t)
       ELSE UNCHANGED <<duration, events, timerAlive, m_TimeReference,
                        m_StartTimePoint>>
    /\ pc' = [pc EXCEPT ![t] = "closed"]
    /\ UNCHANGED <<BUILD_WITH_MPI_FLAG, clockVars, shape, toTime, result,
                   record, failure, callsLeft, invokedAt, finishedAt, view>>

\* The block that holds the Timer is left, by the return of the callable
\* or by the unwinding of the failure it raised: the Timer is destroyed.
ScopeExit(t) ==
    /\ pc[t] \in {"returned", "raised"}
    /\ Timer_dtor(t)
    /\ pc' = [pc EXCEPT ![t] = "closed"]
    /\ UNCHANGED <<BUILD_WITH_MPI_FLAG, clockVars, shape, toTime, result,
                   record, failure, callsLeft, invokedAt, finishedAt, view>>

\* What reading a Duration slot gives: an uninitialised one, anything.
ReadSlot(s) == IF s.is = "uninit" THEN Garbage ELSE {s.v}

\* Mutant: the record is built with a value-initialised result instead of
\* the captured one.
TimeResultValueInit(sh, functionResult, d) ==
    IF sh = "value" THEN [functionResult |-> NoValue, duration |-> d]
    ELSE [duration |-> d]

\* The record time() builds: TimeResult<ResultType>{result, duration} in
\* the value-returning overload, `result` in the void one.
TimeResult(sh, functionResult, d) ==
    IF sh = "value" THEN [functionResult |-> functionResult, duration |-> d]
    ELSE [duration |-> d]

\* time() returns the record to its caller; the frame of the call dies.
Return(t) ==
    /\ pc[t] = "closed"
    /\ toTime[t].outcome = "return"
    /\ \E d \in ReadSlot(duration[SlotOf(t)]) :
           record' = [record EXCEPT ![t] = TimeResult(shape[t], result[t], d)]
    /\ duration' = [duration EXCEPT ![SlotOf(t)] = Dead]
    /\ result' = [result EXCEPT ![t] = NoValue]
    /\ pc' = [pc EXCEPT ![t] = "done"]
    /\ UNCHANGED <<BUILD_WITH_MPI_FLAG, clockVars, shape, toTime, timerAlive,
                   m_StartTimePoint, m_TimeReference, failure, events,
                   callsLeft, invokedAt, finishedAt, view>>

\* The failure of the callable leaves time(): no record is built; the
\* frame of the call dies.
Propagate(t) ==
    /\ pc[t] = "closed"
    /\ toTime[t].outcome = "raise"
    /\ failure' = [failure EXCEPT ![t] = toTime[t].value]
    /\ duration' = [duration EXCEPT ![SlotOf(t)] = Dead]
    /\ result' = [result EXCEPT ![t] = NoValue]
    /\ pc' = [pc EXCEPT ![t] = "failed"]
    /\ UNCHANGED <<BUILD_WITH_MPI_FLAG, clockVars, shape, toTime, timerAlive,
                   m_StartTimePoint, m_TimeReference, record, events,
                   callsLeft, invokedAt, finishedAt, view>>

-----------------------------------------------------------------------------
(* The caller reads its record, as the demo does:                          *)
(* record.getDurationView<U>().as<Rep>()                                   *)

Reps == {"double", "int64", "ReturnDuration"}

\* The accessors of the record thread t holds, by the record's shape.
RecordDuration(t, u) ==
    IF shape[t] = "void" THEN TimeResult_void_getDuration(record[t], u)
    ELSE getDuration(record[t], u)
RecordCount(t, u) ==
    IF shape[t] = "void" THEN TimeResult_void_getDurationCount(record[t], u)
    ELSE getDurationCount(record[t], u)
RecordView(t, u) ==
    IF shape[t] = "void" THEN TimeResult_void_getDurationView(record[t], u)
    ELSE getDurationView(record[t], u)

\* Reading a record does not change it: each record is read once.
ViewAs(t, u, Rep) ==
    /\ pc[t] = "done"
    /\ record[t] # NoRecord
    /\ view = NoView
    /\ LET v == RecordView(t, u)
       IN  view' = [of |-> t, unit |-> u, rep |-> Rep, view |-> v,
                    out |-> TimeView_as(v, Rep)]
    /\ UNCHANGED <<BUILD_WITH_MPI_FLAG, clockVars, callVars>>

\* The caller reads its record through all three accessors of a unit, and
\* converts the view back to the duration.
Accessors(t, u) ==
    /\ pc[t] = "done"
    /\ record[t] # NoRecord
    /\ view = NoView
    /\ LET v == RecordView(t, u)
       IN  view' = [of |-> t, unit |-> u, rep |-> "all", view |-> v,
                    out |-> TimeView_operator(v),
                    got |-> RecordDuration(t, u),
                    count |-> RecordCount(t, u)]
    /\ UNCHANGED <<BUILD_WITH_MPI_FLAG, clockVars, callVars>>

-----------------------------------------------------------------------------
(* The specifications.                                                     *)

\* One thread calls time(), up to MaxCalls times.
Init ==
    /\ BUILD_WITH_MPI_FLAG \in BOOLEAN
    /\ steadyNow = 0
    /\ wallOffset = 0
    /\ advances = 0
    /\ pc = [t \in Threads |-> "idle"]
    /\ shape = [t \in Threads |-> "none"]
    /\ toTime = [t \in Threads |-> NoCallable]
    /\ timerAlive = [t \in Threads |-> FALSE]
    /\ m_StartTimePoint = [t \in Threads |-> 0]
    /\ m_TimeReference = [t \in Threads |-> "none"]
    /\ duration = [t \in Threads |-> Dead]
    /\ result = [t \in Threads |-> NoValue]
    /\ record = [t \in Threads |-> NoRecord]
    /\ failure = [t \in Threads |-> "none"]
    /\ events = [t \in Threads |-> <<>>]
    /\ callsLeft = [t \in Threads |-> IF t = "t1" THEN MaxCalls ELSE 0]
    /\ invokedAt = [t \in Threads |-> 0]
    /\ finishedAt = [t \in Threads |-> 0]
    /\ view = NoView

Next ==
    \/ \E t \in Threads, sh \in Shapes : \E f \in Callables(sh) : Call(t, sh, f)
    \/ \E t \in Threads : Timer_ctor(t)
    \/ \E t \in Threads : Invoke(t)
    \/ \E t \in Threads : CallableReturns(t)
    \/ \E t \in Threads : CallableRaises(t)
    \/ \E t \in Threads : ScopeExit(t)
    \/ \E t \in Threads : Return(t)
    \/ \E t \in Threads : Propagate(t)
    \/ \E d \in Steps : TimePasses(d)
    \/ \E o \in WallOffsets : WallClockSteps(o)

Spec == Init /\ [][Next]_vars

\* Every thread calls time() once, concurrently with the others.
InitConc ==
    /\ BUILD_WITH_MPI_FLAG \in BOOLEAN
    /\ steadyNow = 0
    /\ wallOffset = 0
    /\ advances = 0
    /\ pc = [t \in Threads |-> "idle"]
    /\ shape = [t \in Threads |-> "none"]
    /\ toTime = [t \in Threads |-> NoCallable]
    /\ timerAlive = [t \in Threads |-> FALSE]
    /\ m_StartTimePoint = [t \in Threads |-> 0]
    /\ m_TimeReference = [t \in Threads |-> "none"]
    /\ duration = [t \in Threads |-> Dead]
    /\ result = [t \in Threads |-> NoValue]
    /\ record = [t \in Threads |-> NoRecord]
    /\ failure = [t \in Threads |-> "none"]
    /\ events = [t \in Threads |-> <<>>]
    /\ callsLeft = [t \in Threads |-> 1]
    /\ invokedAt = [t \in Threads |-> 0]
    /\ finishedAt = [t \in Threads |-> 0]
    /\ view = NoView

\* The callables of the concurrent calls: they do not sleep, and fail in
\* one way.
Immediate(sh) ==
    {f \in Callables(sh) :
        /\ f.sleep = 0
        /\ f.outcome = "raise" => f.value = "runtime_error"}

\* By how much the clocks move at once during the concurrent calls: a
\* tick or a second.
ConcSteps == {1, TicksPerSecond}

NextConc ==
    \/ \E t \in Threads, sh \in Shapes : \E f \in Immediate(sh) : Call(t, sh, f)
    \/ \E t \in Threads : Timer_ctor(t)
    \/ \E t \in Threads : Invoke(t)
    \/ \E t \in Threads : CallableReturns(t)
    \/ \E t \in Threads : CallableRaises(t)
    \/ \E t \in Threads : ScopeExit(t)
    \/ \E t \in Threads : Return(t)
    \/ \E t \in Threads : Propagate(t)
    \/ \E d \in ConcSteps : TimePasses(d)
    \/ \E o \in WallOffsets : WallClockSteps(o)

SpecConc == InitConc /\ [][NextConc]_vars

-----------------------------------------------------------------------------
(* The conversions, applied to the records time() delivers.               *)

\* The steady time a measured call took, in ticks: nothing, a tick, and
\* just below, at and just above 750 ms, a second, a minute, an hour, and
\* three hours, seven minutes and a second and a quarter.
ElapsedSamples ==
    LET s34 == (3 * TicksPerSecond + 3) \div 4
        s   == TicksPerSecond
    IN  {0, 1, s34 - 1, s34, s - 1, s, s + 1, 60 * s - 1, 60 * s,
         3600 * s - 1, 3600 * s, 3600 * s + 1,
         3 * 3600 * s + 7 * 60 * s + s + (s \div 4)}

\* By how much the external wall clock was set back during the call:
\* not at all, a tick, a second and a half, two minutes and a tick, five
\* hours.
SetBackSamples ==
    {0, -1, -((3 * TicksPerSecond) \div 2), -(120 * TicksPerSecond + 1),
     -(5 * 3600 * TicksPerSecond)}

\* The state in which thread t1 has received the record of a call whose
\* callable ran for x ticks while the wall clock was set back by o.
Delivered(mpi, sh, x, o) ==
    LET src == IF mpi THEN "MPI_Wtime" ELSE "steady_clock"
        v   == IF sh = "value" THEN 100 ELSE NoValue
        f   == [sleep |-> 0, outcome |-> "return", value |-> v]
        me(a, b) == [t \in Threads |-> IF t = "t1" THEN a ELSE b]
    IN  /\ BUILD_WITH_MPI_FLAG = mpi
        /\ steadyNow = x
        /\ wallOffset = o
        /\ advances = MaxAdvances
        /\ pc = me("done", "idle")
        /\ shape = me(sh, "none")
        /\ toTime = me(f, NoCallable)
        /\ timerAlive = [t \in Threads |-> FALSE]
        /\ m_StartTimePoint = [t \in Threads |-> 0]
        /\ m_TimeReference = [t \in Threads |-> "none"]
        /\ duration = [t \in Threads |-> Dead]
        /\ result = [t \in Threads |-> NoValue]
        /\ record = me(TimeResult(sh, v, Elapsed(x + o, 0)), NoRecord)
        /\ failure = [t \in Threads |-> "none"]
        /\ events = me(<<[kind |-> "read", src |-> src, at |-> 0],
                         [kind |-> "invoke"],
                         [kind |-> "return", value |-> v],
                         [kind |-> "read", src |-> src, at |-> x + o],
                         [kind |-> "write", slot |-> SlotOf("t1"),
                          value |-> Elapsed(x + o, 0)]>>, <<>>)
        /\ callsLeft = me(MaxCalls - 1, 0)
        /\ invokedAt = [t \in Threads |-> 0]
        /\ finishedAt = me(x, 0)
        /\ view = NoView

InitConv ==
    \E mpi \in BOOLEAN, sh \in Shapes, x \in ElapsedSamples :
        \E o \in (IF mpi THEN SetBackSamples ELSE {0}) :
            Delivered(mpi, sh, x, o)

NextConv ==
    \/ \E t \in Threads, u \in Units, Rep \in Reps : ViewAs(t, u, Rep)
    \/ \E t \in Threads, u \in Units : Accessors(t, u)

SpecConv == InitConv /\ [][NextConv]_vars

-----------------------------------------------------------------------------
(* What a call of time() did, read off its events.                         *)

IsRead(e) == e.kind = "read"
IsWrite(e) == e.kind = "write"
IsReturn(e) == e.kind = "return"

Kinds(t) == [i \in 1..Len(events[t]) |-> events[t][i].kind]
Reads(t) == SelectSeq(events[t], IsRead)
Writes(t) == SelectSeq(events[t], IsWrite)
Returns(t) == SelectSeq(events[t], IsReturn)

\* The measurement of thread t's call is closed: its Timer is destroyed and
\* has written, once and into the slot of this call, the end read minus the
\* start read.
Closed(t) ==
    /\ ~timerAlive[t]
    /\ Len(Reads(t)) = 2
    /\ Len(Writes(t)) = 1
    /\ Writes(t)[1].slot = SlotOf(t)
    /\ Writes(t)[1].value = Reads(t)[2].at - Reads(t)[1].at

\* The clock source of the build.
BuildSource == IF BUILD_WITH_MPI_FLAG THEN "MPI_Wtime" ELSE "steady_clock"

-----------------------------------------------------------------------------
(* The claims about time() and the Timer, checked under Spec.              *)

\* C1: in both shapes, a call of time() reads the start time point, then
\* invokes the callable exactly once, then, after the callable has returned
\* or raised, reads the end time point (and writes the slot): at every
\* position of the call its events are exactly the prefix of that sequence
\* the position stands for, with no second invocation and no further read.
C1_EventSequence ==
    \A t \in Threads :
        LET k == Kinds(t)
        IN  /\ pc[t] \in {"idle", "entered"} => k = <<>>
            /\ pc[t] = "timing" => k = <<"read">>
            /\ pc[t] = "running" => k = <<"read", "invoke">>
            /\ pc[t] = "returned" => k = <<"read", "invoke", "return">>
            /\ pc[t] = "raised" => k = <<"read", "invoke", "raise">>
            /\ pc[t] \in {"closed", "done", "failed"} =>
                   /\ toTime[t].outcome \in {"return", "raise"}
                   /\ k = <<"read", "invoke", toTime[t].outcome, "read", "write">>

\* C1 witness: a value-returning call whose callable raised has ended, with
\* the end read taken after the raise.
C1_Witness ==
    \E t \in Threads :
        /\ pc[t] = "failed"
        /\ shape[t] = "value"
        /\ Kinds(t) = <<"read", "invoke", "raise", "read", "write">>

\* C2: a call of time() ends in one of two ways, a record or the failure
\* the callable raised, unchanged and with no record; in both, and before
\* the failure leaves time(), the Timer has been destroyed and has written
\* end minus start into the slot.
C2_ClosedOnEveryExit ==
    \A t \in Threads :
        /\ pc[t] = "closed" =>
               /\ Closed(t)
               /\ duration[SlotOf(t)] = Written(Writes(t)[1].value)
        /\ pc[t] = "failed" =>
               /\ Closed(t)
               /\ toTime[t].outcome = "raise"
               /\ failure[t] = toTime[t].value
               /\ record[t] = NoRecord
        /\ pc[t] = "done" =>
               /\ Closed(t)
               /\ toTime[t].outcome = "return"
               /\ failure[t] = "none"
               /\ record[t] # NoRecord

\* C2 witness: a void call whose callable slept and then raised has
\* propagated the failure, after a positive duration was written.
C2_Witness ==
    \E t \in Threads :
        /\ pc[t] = "failed"
        /\ shape[t] = "void"
        /\ failure[t] = "runtime_error"
        /\ Len(Writes(t)) = 1
        /\ Writes(t)[1].value > 0

\* C3: the functionResult of the record of a value-returning call is the
\* value the callable returned on the one invocation of this call, and the
\* record's duration is the end read minus the start read of this call.
C3_ResultOfMeasuredInvocation ==
    \A t \in Threads :
        (pc[t] = "done" /\ shape[t] = "value") =>
            /\ Len(Returns(t)) = 1
            /\ record[t].functionResult = Returns(t)[1].value
            /\ Len(Reads(t)) = 2
            /\ record[t].duration = Reads(t)[2].at - Reads(t)[1].at

\* C3 witness: the second call of a thread delivered the value 100 with a
\* positive duration.
C3_Witness ==
    \E t \in Threads :
        /\ pc[t] = "done"
        /\ shape[t] = "value"
        /\ callsLeft[t] = MaxCalls - 2
        /\ record[t].functionResult = 100
        /\ record[t].duration > 0

\* C8: every clock read of every measurement is from the clock source of
\* the build: MPI_Wtime is never read in a build without BUILD_WITH_MPI,
\* and in a build with it both the start and the end read are MPI_Wtime.
C8_OneClockSourcePerBuild ==
    \A t \in Threads :
        \A i \in 1..Len(events[t]) :
            events[t][i].kind = "read" => events[t][i].src = BuildSource

\* C8 witness: a build with BUILD_WITH_MPI has closed a measurement with
\* two reads of MPI_Wtime.
C8_Witness ==
    \E t \in Threads :
        /\ BUILD_WITH_MPI_FLAG
        /\ pc[t] = "done"
        /\ Len(Reads(t)) = 2
        /\ Reads(t)[1].src = "MPI_Wtime"
        /\ Reads(t)[2].src = "MPI_Wtime"

\* C9: in a build without BUILD_WITH_MPI the Duration written, and the one
\* delivered, is at least the time by which the steady clock advanced
\* between the invocation of the callable and its end, which is at least
\* the time the callable slept; so it is never negative.
C9_AtLeastTheSleep ==
    ~BUILD_WITH_MPI_FLAG =>
        \A t \in Threads :
            /\ pc[t] = "closed" =>
                   /\ duration[SlotOf(t)].is = "written"
                   /\ duration[SlotOf(t)].v >= finishedAt[t] - invokedAt[t]
                   /\ duration[SlotOf(t)].v >= toTime[t].sleep
                   /\ duration[SlotOf(t)].v >= 0
            /\ pc[t] = "done" =>
                   /\ record[t].duration >= finishedAt[t] - invokedAt[t]
                   /\ record[t].duration >= toTime[t].sleep
                   /\ record[t].duration >= 0

\* C9 witness: a callable that slept 750 ms was measured, on the steady
\* clock, at 750 ms or more.
C9_Witness ==
    \E t \in Threads :
        /\ ~BUILD_WITH_MPI_FLAG
        /\ pc[t] = "done"
        /\ toTime[t].sleep > 0
        /\ 4 * record[t].duration >= 3 * TicksPerSecond

\* C10: in a build with BUILD_WITH_MPI, when the end read is smaller than
\* the start read, the record is still delivered and its Duration is the
\* raw difference end minus start, a negative value: not clamped, not
\* replaced, and no failure.
C10_RawNegativeDifference ==
    BUILD_WITH_MPI_FLAG =>
        \A t \in Threads :
            (/\ pc[t] = "done"
             /\ Len(Reads(t)) = 2
             /\ Reads(t)[2].at < Reads(t)[1].at) =>
                /\ record[t].duration = Reads(t)[2].at - Reads(t)[1].at
                /\ record[t].duration < 0
                /\ failure[t] = "none"

\* C10 witness: a record with a negative Duration has been delivered.
C10_Witness ==
    \E t \in Threads :
        /\ BUILD_WITH_MPI_FLAG
        /\ pc[t] = "done"
        /\ record[t].duration < 0

-----------------------------------------------------------------------------
(* The claims about the conversions, checked under SpecConv.               *)

\* The Duration of the record the view was taken from, in ticks and as a
\* count of seconds.
ViewTicks == record[view.of].duration
ViewSeconds == DurationCount(ViewTicks)

\* scale(U): the seconds per unit of U.
scale(u) == Unit(u).period

\* The integer n as a rational.
Whole(n) == [neg |-> FALSE, num |-> n, den |-> One]

\* c is an integer and |c| * scale(U) <= |D| < (|c| + 1) * scale(U), with
\* the sign of D unless c is zero: c is D / scale(U) truncated toward zero.
TruncatedQuotient(c, u, d) ==
    /\ c.den = One
    /\ RatAbsLeq(RatMul(Whole(c.num), scale(u)), DurationCount(d))
    /\ RatAbsLess(DurationCount(d), RatMul(Whole(BigAdd(c.num, One)), scale(u)))
    /\ c.neg => (d < 0 /\ c.num # <<>>)
    /\ (d < 0 /\ c.num # <<>>) => c.neg

\* C4: for a unit U of std::chrono (nanoseconds ... hours) and a Duration
\* D >= 0, getDurationView<U>().as<int64_t>() is floor(D / scale(U)): a
\* non-negative integer c with c * scale(U) <= D < (c + 1) * scale(U); and
\* a D in [0.75 s, 1 s) gives 0 in seconds and at least 750 in milliseconds.
C4_IntegerTickFloor ==
    (/\ view # NoView
     /\ view.unit \in ChronoUnits
     /\ view.rep = "int64"
     /\ ViewTicks >= 0) =>
        /\ ~view.out.neg
        /\ view.out.den = One
        /\ RatAbsLeq(RatMul(view.out, scale(view.unit)), ViewSeconds)
        /\ RatAbsLess(ViewSeconds,
                      RatMul(Whole(BigAdd(view.out.num, One)), scale(view.unit)))
        /\ (4 * ViewTicks >= 3 * TicksPerSecond /\ ViewTicks < TicksPerSecond) =>
               /\ view.unit = "chrono_seconds" => view.out.num = <<>>
               /\ view.unit = "chrono_milliseconds" =>
                      BigLeq(NatToBig(750), view.out.num)

\* C4 witness: a Duration in [0.75 s, 1 s) was read as 0 whole seconds.
C4_Witness ==
    /\ view # NoView
    /\ view.unit = "chrono_seconds"
    /\ view.rep = "int64"
    /\ 4 * ViewTicks >= 3 * TicksPerSecond
    /\ ViewTicks < TicksPerSecond
    /\ view.out.num = <<>>

C6_CrossUnitConsistency ==
    (/\ view # NoView
     /\ view.unit \in TimerUnits
     /\ view.rep = "double") =>
        LET mine == RatMul(view.out, scale(view.unit))
        IN  /\ RatEq(mine, ViewSeconds)
            /\ \A u2 \in TimerUnits :
                   RatEq(mine,
                         RatMul(TimeView_as(RecordView(view.of, u2),
                                            "double"),
                                scale(u2)))

\* C6 witness: a positive Duration was read in millennia.
C6_Witness ==
    /\ view # NoView
    /\ view.unit = "millennia"
    /\ view.rep = "double"
    /\ ViewTicks > 0

\* C7 as stated: the decades unit has the scale 315 695 520 seconds per
\* unit, and this scale is 10 times the scale of the years unit.
C7_AsStated ==
    /\ BigMul(years.period.num, NatToBig(10)) = Num(<<315, 695, 520>>)
    /\ (/\ view # NoView
        /\ view.unit = "decades"
        /\ view.rep = "double") =>
           RatEq(RatMul(view.out, Ratio(<<315, 695, 520>>, <<1>>)), ViewSeconds)

\* C7, amended: the decades unit has the scale 315 569 520 seconds per
\* unit, which is 10 times the scale of the years unit (31 556 952): a
\* Duration read in decades, times 315 569 520, is the Duration in seconds,
\* and ten times its count in decades is its count in years.
C7_DecadeIsTenYears ==
    /\ years.period = Ratio(<<31, 556, 952>>, <<1>>)
    /\ (/\ view # NoView
        /\ view.unit = "decades"
        /\ view.rep = "double") =>
           /\ scale(view.unit).den = One
           /\ scale(view.unit).num = BigMul(years.period.num, NatToBig(10))
           /\ RatEq(RatMul(view.out, Ratio(<<315, 569, 520>>, <<1>>)), ViewSeconds)
           /\ RatEq(RatMul(view.out, Whole(NatToBig(10))),
                    TimeView_as(RecordView(view.of, "years"),
                                "double"))

\* C7 witness: a Duration other than zero was read in decades.
C7_Witness ==
    /\ view # NoView
    /\ view.unit = "decades"
    /\ view.rep = "double"
    /\ ViewTicks # 0

-----------------------------------------------------------------------------
(* The claims about concurrent calls, checked under SpecConc.              *)

\* The threads other than t.
OtherThan(t) == Threads \ {t}

\* C11: concurrent calls of time() on different threads do not interfere:
\* under any interleaving, each call's write goes to its own slot and is
\* its own end read minus its own start read, no other call writes to that
\* slot, the slot holds that value until the call reads it, and the record
\* delivered has that Duration and the call's own returned value.
C11_NoInterference ==
    \A t \in Threads :
        /\ timerAlive[t] =>
               \A o \in OtherThan(t) :
                   timerAlive[o] => m_TimeReference[o] # m_TimeReference[t]
        /\ \A i \in 1..Len(Writes(t)) :
               \A o \in OtherThan(t) :
                   \A j \in 1..Len(Writes(o)) :
                       Writes(o)[j].slot # Writes(t)[i].slot
        /\ pc[t] \in {"closed", "done", "failed"} => Closed(t)
        /\ pc[t] = "closed" =>
               duration[SlotOf(t)] =
                   Written(Reads(t)[2].at - Reads(t)[1].at)
        /\ pc[t] = "done" =>
               /\ record[t].duration = Reads(t)[2].at - Reads(t)[1].at
               /\ shape[t] = "value" =>
                      (/\ Len(Returns(t)) = 1
                       /\ record[t].functionResult = Returns(t)[1].value)

\* C11 witness: two calls whose measured windows overlapped have both
\* delivered their records, with different Durations and different values.
C11_Witness ==
    \E a \in Threads : \E b \in OtherThan(a) :
        /\ pc[a] = "done" /\ pc[b] = "done"
        /\ shape[a] = "value" /\ shape[b] = "value"
        /\ Len(Reads(a)) = 2 /\ Len(Reads(b)) = 2
        /\ Reads(a)[1].at < Reads(b)[1].at
        /\ Reads(b)[1].at < Reads(a)[2].at
        /\ record[a].duration # record[b].duration
        /\ record[a].functionResult # record[b].functionResult

-----------------------------------------------------------------------------
(* The claims about the accessors, checked under SpecConv.                 *)

\* Records of the two shapes that hold the Duration of d ticks.
ValueRecord(d) == [functionResult |-> 100, duration |-> d]
VoidRecord(d) == [duration |-> d]

\* C12: on both record shapes the three accessors agree for every unit U
\* and every Duration D: getDurationCount<U>() is getDuration<U>().count()
\* and is getDurationView<U>().count(), and the view converts back to
\* exactly getDuration<U>(); with the default unit all three give the
\* stored Duration unchanged; and the two shapes give identical values for
\* the same D and U.
C12_AccessorsAgree ==
    (view # NoView /\ view.rep = "all") =>
        /\ view.count = view.got.count
        /\ view.count = TimeView_count(view.view)
        /\ view.out = view.got
        /\ TimeView_as(view.view, "ReturnDuration") = view.got
        /\ view.got.unit = view.unit
        /\ view.unit = "Duration" =>
               /\ RatEq(view.count, ViewSeconds)
               /\ view.count.neg = (ViewTicks < 0)
        /\ getDuration(ValueRecord(ViewTicks), view.unit) = view.got
        /\ TimeResult_void_getDuration(VoidRecord(ViewTicks), view.unit) = view.got
        /\ getDurationCount(ValueRecord(ViewTicks), view.unit) = view.count
        /\ TimeResult_void_getDurationCount(VoidRecord(ViewTicks), view.unit)
               = view.count
        /\ getDurationView(ValueRecord(ViewTicks), view.unit) = view.view
        /\ TimeResult_void_getDurationView(VoidRecord(ViewTicks), view.unit)
               = view.view

\* C12 witness: a void record holding a Duration other than zero was read
\* through the three accessors in std::chrono::milliseconds.
C12_Witness ==
    /\ view # NoView
    /\ view.rep = "all"
    /\ shape[view.of] = "void"
    /\ view.unit = "chrono_milliseconds"
    /\ view.count.num # <<>>

-----------------------------------------------------------------------------
(* The claims about the long units, checked under SpecConv.                *)

\* How many years the century and the millennium are said to be.
YearsIn(u) == IF u = "centuries" THEN NatToBig(100) ELSE NatToBig(1000)

\* The scale of unit u, k times over.
Times(k, u) == RatMul(Whole(k), scale(u))

\* C13 as stated: the century and millennium scales are not 100 times and
\* 1000 times the year scale; they are 100 times and 1000 times the decade
\* scale: a Duration read in centuries (millennia), times 100 (1000)
\* decades, is the Duration, and times 100 (1000) years is not.
C13_AsStated ==
    (/\ view # NoView
     /\ view.unit \in {"centuries", "millennia"}
     /\ view.rep = "double"
     /\ ViewTicks # 0) =>
        /\ RatEq(RatMul(view.out, Times(YearsIn(view.unit), "decades")),
                 ViewSeconds)
        /\ ~RatEq(RatMul(view.out, Times(YearsIn(view.unit), "years")),
                  ViewSeconds)

\* C13, amended: the century and millennium scales are exactly 100 times
\* and 1000 times the year scale (31 556 952 s), which is 10 times and 100
\* times the decade scale: a Duration read in centuries (millennia), times
\* 100 (1000) years, is the Duration, and its count in years is 100 (1000)
\* times its count in centuries (millennia).
C13_CenturyIsHundredYears ==
    (/\ view # NoView
     /\ view.unit \in {"centuries", "millennia"}
     /\ view.rep = "double") =>
        /\ scale(view.unit) = Times(YearsIn(view.unit), "years")
        /\ RatEq(Times(NatToBig(10), view.unit),
                 Times(YearsIn(view.unit), "decades"))
        /\ RatEq(RatMul(view.out, Times(YearsIn(view.unit), "years")),
                 ViewSeconds)
        /\ RatEq(RatMul(view.out, Whole(YearsIn(view.unit))),
                 TimeView_as(RecordView(view.of, "years"), "double"))

\* C13 witness: a Duration other than zero was read in centuries.
C13_Witness ==
    /\ view # NoView
    /\ view.unit = "centuries"
    /\ view.rep = "double"
    /\ ViewTicks # 0

-----------------------------------------------------------------------------
(* The claims about the handle and its slot, checked under SpecConc.       *)

\* The live handles that point at slot s.
HandlesOn(s) == {t \in Threads : timerAlive[t] /\ m_TimeReference[t] = s}

\* C14: a Timer is created only by time(), is never copied or moved, and is
\* confined to the call of time() that created it: a handle is alive only
\* between the construction and the scope exit of its call and points at
\* the slot of that call; every slot has at most one live handle pointing
\* at it; the slot a live handle points at is alive; and a call has at
\* most one destructor write, as a second handle would add another.
C14_HandleConfined ==
    /\ \A s \in Threads : Cardinality(HandlesOn(s)) <= 1
    /\ \A t \in Threads :
           /\ timerAlive[t] <=> pc[t] \in {"timing", "running", "returned", "raised"}
           /\ timerAlive[t] =>
                  /\ m_TimeReference[t] = SlotOf(t)
                  /\ duration[m_TimeReference[t]] # Dead
                  /\ Len(Reads(t)) = 1
                  /\ Len(Writes(t)) = 0
           /\ ~timerAlive[t] => m_TimeReference[t] = "none"
           /\ Len(Writes(t)) <= 1
           /\ duration[SlotOf(t)] = Dead => ~timerAlive[t]

\* C14 witness: two calls are open at once, each with its own live handle
\* on its own live slot.
C14_Witness ==
    \E a \in Threads : \E b \in OtherThan(a) :
        /\ timerAlive[a] /\ timerAlive[b]
        /\ pc[a] = "running" /\ pc[b] = "raised"
        /\ HandlesOn(SlotOf(a)) = {a}
        /\ HandlesOn(SlotOf(b)) = {b}
        /\ duration[SlotOf(a)] # Dead
        /\ duration[SlotOf(b)] # Dead

-----------------------------------------------------------------------------
(* The claim about the one write of the slot, checked under Spec.          *)

\* C15: in both shapes the Duration slot of a call of time() is written
\* exactly once, by the destructor of the handle, and before the record is
\* returned: until the scope exit the slot holds its initial content
\* (uninitialised in the value-returning shape, zero in the void shape)
\* and nothing is written; from the scope exit on there is exactly one
\* write, of end minus start; and the Duration of the record returned is
\* the value of that write.
C15_WrittenOnceBeforeRecord ==
    \A t \in Threads :
        /\ pc[t] \in {"entered", "timing", "running", "returned", "raised"} =>
               /\ Len(Writes(t)) = 0
               /\ duration[SlotOf(t)] = InitialSlot(shape[t])
               /\ record[t] = NoRecord
        /\ pc[t] \in {"closed", "done", "failed"} =>
               /\ Len(Writes(t)) = 1
               /\ Len(Reads(t)) = 2
               /\ Writes(t)[1].value = Reads(t)[2].at - Reads(t)[1].at
               /\ events[t][Len(events[t])].kind = "write"
        /\ pc[t] = "closed" =>
               /\ record[t] = NoRecord
               /\ duration[SlotOf(t)] = Written(Writes(t)[1].value)
        /\ pc[t] = "done" =>
               /\ record[t] # NoRecord
               /\ record[t].duration = Writes(t)[1].value

\* C15 witness: a void call has returned a record whose Duration is the
\* one written value and is not the zero the slot began with.
C15_Witness ==
    \E t \in Threads :
        /\ pc[t] = "done"
        /\ shape[t] = "void"
        /\ Len(Writes(t)) = 1
        /\ record[t].duration = Writes(t)[1].value
        /\ record[t].duration # 0

====
